---- MODULE Spec2Model ----
(***************************************************************************)
(* Neuron populations of bindsnet/network/nodes/modules.py: the base class *)
(* Nodes and its two dynamics variants IFNodes and LIFNodes.               *)
(*                                                                         *)
(* A tensor is a record [shape, data]: shape is the sequence of its        *)
(* dimensions and data its elements in row-major order, so                 *)
(* Len(data) = Prod(shape).  torch.FloatTensor() is the tensor of shape    *)
(* <<0>> with no element.  Voltages and parameters are integers (a fixed   *)
(* point reading of the floats).  Parameters are scalars, the defaults'    *)
(* form.                                                                   *)
(***************************************************************************)
EXTENDS Integers, Sequences, FiniteSets, TLC

VARIABLES
    pc,      \* "new": no constructor has run; "live": a population exists;
             \* "failed": the constructor raised
    kind,    \* "IF" (IFNodes) or "LIF" (LIFNodes)
    n,       \* self.n
    shape,   \* self.shape
    dt,      \* self.dt
    s,       \* buffer self.s (spikes)
    v,       \* buffer self.v (voltages)
    par,     \* self.thresh, self.reset, self.lbound, self.rest, self.tc_decay, self.scale
    last,    \* the last operation called, its arguments, how it ended, and for a
             \* restoration whether the population was fresh and shape-deferred
    steps    \* number of DriveStep updates applied since the reset (observer)

vars == <<pc, kind, n, shape, dt, s, v, par, last, steps>>

-----------------------------------------------------------------------------
(* Bounds *)

\* largest number of neurons of a shape, and largest n handed to a constructor
MaxN == 2

-----------------------------------------------------------------------------
(* Values *)

\* Python's None where a shape is expected (Optional[Iterable[int]])
None == <<-1>>
\* Python's None where an integer is expected (Optional[int])
NoInt == -1

Kinds == {"IF", "LIF"}

\* the record kept of a call: the operation, how it ended, its n and shape arguments
\* (for a restoration the shape of the snapshot's spikes entry, None when it has
\* none), whether it found the population fresh and shape-deferred, and the load's
\* error reports; repeat is set by a reset that follows a reset with the same shape
\* argument
Call(op, status, nArg, shapeArg, fresh, errs) ==
    [op |-> op, status |-> status, nArg |-> nArg, shapeArg |-> shapeArg,
     fresh |-> fresh, errs |-> errs, repeat |-> FALSE]

RECURSIVE Prod(_)
\* reduce(mul, shape)
Prod(sh) == IF Len(sh) = 0 THEN 1 ELSE Head(sh) * Prod(Tail(sh))

\* the shapes a caller hands over: one- and two-dimensional, of positive dimensions
Shapes ==
    { <<a>> : a \in 1..MaxN }
    \cup { sh \in { <<a, b>> : a \in 1..MaxN, b \in 1..MaxN } : Prod(sh) <= MaxN }

\* the shape of torch.FloatTensor()
EmptyShape == <<0>>

\* torch.FloatTensor(): no element
EmptyTensor == [shape |-> EmptyShape, data |-> <<>>]

\* torch.zeros(*shape)
Zeros(sh) == [shape |-> sh, data |-> [i \in 1..Prod(sh) |-> 0]]

\* torch.ones_like(t)
OnesLike(t) == [shape |-> t.shape, data |-> [i \in 1..Len(t.data) |-> 1]]

\* scalar * tensor
Scale(c, t) == [shape |-> t.shape, data |-> [i \in 1..Len(t.data) |-> c * t.data[i]]]

\* t.numel()
Numel(t) == Len(t.data)

Max(a, b) == IF a >= b THEN a ELSE b

\* the constructor's keyword arguments thresh, reset, lbound, rest, tc_decay, scale:
\* one set with lbound below everything (the default's order, rest differing from
\* reset), one with reset below lbound
ParamSets ==
    { [thresh |-> 2, reset |-> 0, lbound |-> -2, rest |-> -1, tc_decay |-> 2, scale |-> 1],
      [thresh |-> 1, reset |-> -1, lbound |-> 0, rest |-> 0, tc_decay |-> 1, scale |-> 1] }

\* the parameters an IFNodes holds: it has neither rest nor tc_decay
IFParams(p) == [p EXCEPT !.rest = NoInt, !.tc_decay = NoInt]

\* values of set_dt's argument
DtVals == {1}

\* the per-neuron values of an input x
DriveVals == {-1, 1, 2}

\* the inputs x of a shape
Drives(sh) == { [shape |-> sh, data |-> d] : d \in [1..Prod(sh) -> DriveVals] }

-----------------------------------------------------------------------------
(* Nodes.__init__ and the subclasses' __init__ *)

\* self.n after lines 38-41
CtorN(nArg, shapeArg) == IF nArg = NoInt THEN Prod(shapeArg) ELSE nArg

\* the shape always taken from n
CtorShapeFromN(nArg, shapeArg) == <<CtorN(nArg, shapeArg)>>

\* self.shape after lines 43-46
CtorShape(nArg, shapeArg) == IF shapeArg = None THEN <<CtorN(nArg, shapeArg)>> ELSE shapeArg

\* the assertion comparing n with the number of dimensions
CtorAssertRank(nArg, shapeArg) ==
    CtorN(nArg, shapeArg) = Len(CtorShape(nArg, shapeArg))

\* the assertion of lines 48-50
CtorAssert(nArg, shapeArg) ==
    CtorN(nArg, shapeArg) = Prod(CtorShape(nArg, shapeArg))

\* the parameters the subclass constructor stores
CtorParams(k, p) == IF k = "IF" THEN IFParams(p) ELSE p

Construct(k, nArg, shapeArg, p) ==
    /\ pc = "new"
    /\ IF nArg = NoInt /\ shapeArg = None
       THEN \* lines 33-36: shape determination deferred
            /\ pc' = "live"
            /\ n' = NoInt
            /\ shape' = None
            /\ kind' = k
            /\ s' = EmptyTensor
            /\ v' = EmptyTensor
            /\ par' = CtorParams(k, p)
            /\ last' = Call("construct", "ok", nArg, shapeArg, FALSE, {})
       ELSE IF CtorAssert(nArg, shapeArg)
       THEN /\ pc' = "live"
            /\ n' = CtorN(nArg, shapeArg)
            /\ shape' = CtorShape(nArg, shapeArg)
            /\ kind' = k
            /\ s' = EmptyTensor
            /\ v' = EmptyTensor
            /\ par' = CtorParams(k, p)
            /\ last' = Call("construct", "ok", nArg, shapeArg, FALSE, {})
       ELSE \* the assertion raises: no object is returned
            /\ pc' = "failed"
            /\ last' = Call("construct", "AssertionError", nArg, shapeArg, FALSE, {})
            /\ UNCHANGED <<kind, n, shape, s, v, par>>
    /\ UNCHANGED <<dt, steps>>

\* a population on which nothing but its constructor has run, built with neither
\* n nor shape
Fresh == pc = "live" /\ last.op = "construct" /\ shape = None

-----------------------------------------------------------------------------
(* Nodes.set_dt *)

SetDt(d) ==
    /\ pc = "live"
    /\ dt # d
    /\ dt' = d
    /\ last' = Call("set_dt", "ok", NoInt, None, FALSE, {})
    /\ UNCHANGED <<pc, kind, n, shape, s, v, par, steps>>

-----------------------------------------------------------------------------
(* reset_ *)

\* Nodes.reset_, lines 60-61: self.shape after the call
NodesResetShape(sh, shapeArg) == IF shapeArg # None THEN shapeArg ELSE sh

\* the spikes allocated flat, one dimension of all the neurons
NodesResetSFlat(sh, cur) == IF sh = None THEN cur ELSE Zeros(<<Prod(sh)>>)

\* Nodes.reset_, lines 63-66: self.s after the call, sh being the resolved shape
NodesResetS(sh, cur) == IF sh = None THEN cur ELSE Zeros(sh)

\* the voltage set to the resting voltage
ResetVToRest(p, spikes) == Scale(p.rest, OnesLike(spikes))

\* IFNodes.reset_ line 160, LIFNodes.reset_ line 230: self.v after the call
ResetV(p, spikes) == Scale(p.reset, OnesLike(spikes))

\* the voltage assigned before super().reset_ has run: ones_like sees the old spikes
SubclassResetVFirst(p, before, after) == ResetV(p, before)

\* IFNodes.reset_ lines 158-160, LIFNodes.reset_ lines 228-230: super().reset_ runs
\* first, so ones_like sees the spikes buffer it left
SubclassResetV(p, before, after) == ResetV(p, after)

Reset(shapeArg) ==
    /\ pc = "live"
    /\ shape' = NodesResetShape(shape, shapeArg)
    /\ s' = NodesResetS(shape', s)
    /\ v' = SubclassResetV(par, s, s')
    /\ steps' = 0
    /\ last' = [Call("reset", "ok", NoInt, shapeArg, FALSE, {})
                   EXCEPT !.repeat = (last.op = "reset" /\ last.shapeArg = shapeArg)]
    /\ UNCHANGED <<pc, kind, n, dt, par>>

-----------------------------------------------------------------------------
(* The numeric kernels of bindsnet/network/nodes/functional.py *)

\* integer division rounding toward zero
TruncDiv(a, b) == IF a >= 0 THEN a \div b ELSE -((-a) \div b)

\* the previous voltage a kernel works on: zeros shaped like x when v is empty
PrevVoltage(x, vt) == IF Numel(vt) = 0 THEN Zeros(x.shape) ELSE vt

\* F.if_update(x, v): leak-free accumulation
IfUpdate(x, vt) ==
    [shape |-> x.shape,
     data |-> [i \in 1..Numel(x) |-> PrevVoltage(x, vt).data[i] + x.data[i]]]

\* F.lif_update(x, v, tc_decay, rest): relax toward rest, then add the drive
LifUpdate(x, vt, tc, rest) ==
    [shape |-> x.shape,
     data |-> [i \in 1..Numel(x) |->
                  PrevVoltage(x, vt).data[i]
                  - TruncDiv(PrevVoltage(x, vt).data[i] - rest, tc)
                  + x.data[i]]]

\* F.super_spike_update(v, thresh, reset, lbound, scale): the forward value of the
\* spike is the hard step; scale shapes the surrogate gradient only
SuperSpikeUpdate(vt, thresh, reset, lbound, scale) ==
    LET spike == [i \in 1..Numel(vt) |-> IF vt.data[i] >= thresh THEN 1 ELSE 0]
    IN [s |-> [shape |-> vt.shape, data |-> spike],
        v |-> [shape |-> vt.shape,
               data |-> [i \in 1..Numel(vt) |->
                            Max(lbound, IF spike[i] = 1 THEN reset ELSE vt.data[i])]]]

-----------------------------------------------------------------------------
(* forward *)

\* the threshold handed over where the reset voltage belongs
IFForwardThreshAsReset(x, vt, p) ==
    SuperSpikeUpdate(IfUpdate(x, vt), p.thresh, p.thresh, p.lbound, p.scale)

\* the result of the integration dropped: the spike kernel sees the old voltage
IFForwardNoIntegrate(x, vt, p) ==
    SuperSpikeUpdate(PrevVoltage(x, vt), p.thresh, p.reset, p.lbound, p.scale)

\* the reset voltage handed over where the lower bound belongs
IFForwardResetAsBound(x, vt, p) ==
    SuperSpikeUpdate(IfUpdate(x, vt), p.thresh, p.reset, p.reset, p.scale)

\* IFNodes.forward: the pair (self.s, self.v) after the call
IFForward(x, vt, p) ==
    SuperSpikeUpdate(IfUpdate(x, vt), p.thresh, p.reset, p.lbound, p.scale)

\* the reset voltage handed over as the decay's target
LIFForwardDecayToReset(x, vt, p) ==
    SuperSpikeUpdate(LifUpdate(x, vt, p.tc_decay, p.reset),
                     p.thresh, p.reset, p.lbound, p.scale)

\* the result of the leaky integration dropped: the spike kernel sees the old voltage
LIFForwardNoIntegrate(x, vt, p) ==
    SuperSpikeUpdate(PrevVoltage(x, vt), p.thresh, p.reset, p.lbound, p.scale)

\* LIFNodes.forward: the pair (self.s, self.v) after the call
LIFForward(x, vt, p) ==
    SuperSpikeUpdate(LifUpdate(x, vt, p.tc_decay, p.rest),
                     p.thresh, p.reset, p.lbound, p.scale)

\* the inputs the elementwise kernels accept: shaped like v, any shape when v is empty
Inputs == IF Numel(v) = 0
          THEN UNION { Drives(sh) : sh \in Shapes }
          ELSE Drives(v.shape)

\* an update that also takes the drive's shape as the population's
ForwardResyncShape(x) ==
    /\ pc = "live"
    /\ LET r == IF kind = "IF" THEN IFForward(x, v, par) ELSE LIFForward(x, v, par)
       IN /\ s' = r.s
          /\ v' = r.v
    /\ shape' = x.shape
    /\ last' = Call("forward", "ok", NoInt, None, FALSE, {})
    /\ UNCHANGED <<pc, kind, n, dt, par>>

\* IFNodes.forward, LIFNodes.forward
Forward(x) ==
    /\ pc = "live"
    /\ LET r == IF kind = "IF" THEN IFForward(x, v, par) ELSE LIFForward(x, v, par)
       IN /\ s' = r.s
          /\ v' = r.v
    /\ last' = Call("forward", "ok", NoInt, None, FALSE, {})
    /\ UNCHANGED <<pc, kind, n, shape, dt, par>>

\* an update in an arbitrary run
ForwardStep(x) == Forward(x) /\ UNCHANGED steps

-----------------------------------------------------------------------------
(* load_state_dict -> Nodes._load_from_state_dict *)

\* the names of the buffers and parameters a population registers
OwnKeys(k) ==
    IF k = "IF" THEN {"s", "v", "reset", "thresh", "lbound"}
    ELSE {"s", "v", "reset", "thresh", "lbound", "rest", "tc_decay"}

\* the key sets of the snapshots handed to a restoration: what state_dict() of
\* either class writes, and snapshots that lost entries
KeySets ==
    { OwnKeys("IF"), OwnKeys("LIF"),
      OwnKeys("IF") \ {"s"}, OwnKeys("LIF") \ {"s"}, OwnKeys("LIF") \ {"v"},
      {"s"}, {} }

\* the voltage and the spike values of a snapshot; a snapshot's buffer holds one
\* value in every neuron
SnapVolts == {2}
SnapSpikes == {0, 1}

\* the (s, v) pairs of a snapshot: state_dict() writes both buffers, of one shape
SnapBuffers ==
    { [s |-> EmptyTensor, v |-> EmptyTensor] }
    \cup { [s |-> Scale(a, OnesLike(Zeros(sh))), v |-> Scale(b, OnesLike(Zeros(sh)))] :
             sh \in Shapes, a \in SnapSpikes, b \in SnapVolts }

\* the snapshots; an entry whose key is absent is never read and is written here as
\* the constructor's value
Snapshots ==
    { [keys |-> ks,
       s |-> IF "s" \in ks THEN b.s ELSE EmptyTensor,
       v |-> IF "v" \in ks THEN b.v ELSE EmptyTensor,
       p |-> [f \in DOMAIN p |-> IF f \in ks THEN p[f] ELSE NoInt]] :
        ks \in KeySets, b \in SnapBuffers, p \in ParamSets }

\* load_state_dict's strict argument: its default
StrictVals == {TRUE}

\* line 81: the argument of the reset_ call
SnapShape(sd) == sd.s.shape

\* reset_ called without the snapshot's shape
RestoreShapeKept(sh, sd) == sh

\* line 81: self.shape after the reset_ call
RestoreShape(sh, sd) == NodesResetShape(sh, SnapShape(sd))

\* line 81: self.s after the reset_ call
RestoreResetS(sh, cur, sd) == NodesResetS(RestoreShape(sh, sd), cur)

\* the base class's reset_ called: the voltage is left as it was
RestoreResetVBase(sh, cur, curV, p, sd) == curV

\* line 81: self.v after the reset_ call (the subclass's reset_ runs)
RestoreResetV(sh, cur, curV, p, sd) == ResetV(p, RestoreResetS(sh, cur, sd))

\* Module._load_from_state_dict on one buffer: copied when its key is present and
\* the shapes agree, left alone otherwise
LoadBuffer(cur, present, input) ==
    IF present /\ input.shape = cur.shape THEN input ELSE cur

\* Module._load_from_state_dict on the parameters (scalars: no shape to disagree)
LoadParams(k, cur, sd) ==
    [f \in DOMAIN cur |->
        IF f \in OwnKeys(k) /\ f \in sd.keys THEN sd.p[f] ELSE cur[f]]

\* lines 83-91: self.s after the default load
RestoreS(sh, cur, sd) == LoadBuffer(RestoreResetS(sh, cur, sd), "s" \in sd.keys, sd.s)

\* the reset run after the load: the loaded voltage is overwritten
RestoreVResetLast(sh, cur, curV, p, sd) == RestoreResetV(sh, cur, curV, p, sd)

\* lines 83-91: self.v after the default load
RestoreV(sh, cur, curV, p, sd) ==
    LoadBuffer(RestoreResetV(sh, cur, curV, p, sd), "v" \in sd.keys, sd.v)

\* the error messages and key reports load_state_dict collects
LoadErrors(k, sh, cur, curV, p, sd, strict) ==
    (IF "s" \in sd.keys /\ sd.s.shape # RestoreResetS(sh, cur, sd).shape
        THEN {"size mismatch for s"} ELSE {})
    \cup (IF "v" \in sd.keys /\ sd.v.shape # RestoreResetV(sh, cur, curV, p, sd).shape
        THEN {"size mismatch for v"} ELSE {})
    \cup (IF strict /\ OwnKeys(k) \ sd.keys # {} THEN {"missing keys"} ELSE {})
    \cup (IF strict /\ sd.keys \ OwnKeys(k) # {} THEN {"unexpected keys"} ELSE {})

\* a lookup that does not raise
MissingSpikesIgnored(sd) == FALSE

\* line 81: state_dict[prefix + "s"] raises KeyError when the entry is absent
MissingSpikes(sd) == "s" \notin sd.keys

\* a restoration whose reset runs before the lookup of the spikes entry
RestoreResetBeforeLookup(sd, strict) ==
    /\ pc = "live"
    /\ IF MissingSpikes(sd)
       THEN /\ last' = Call("restore", "KeyError", NoInt,
                            IF "s" \in sd.keys THEN sd.s.shape ELSE None, Fresh, {})
            /\ s' = NodesResetS(shape, s)
            /\ v' = ResetV(par, s')
            /\ UNCHANGED <<shape, par, steps>>
       ELSE /\ shape' = RestoreShape(shape, sd)
            /\ s' = RestoreS(shape, s, sd)
            /\ v' = RestoreV(shape, s, v, par, sd)
            /\ par' = LoadParams(kind, par, sd)
            /\ steps' = 0
            /\ last' = Call("restore",
                            IF LoadErrors(kind, shape, s, v, par, sd, strict) = {}
                            THEN "ok" ELSE "RuntimeError",
                            NoInt, IF "s" \in sd.keys THEN sd.s.shape ELSE None, Fresh,
                            LoadErrors(kind, shape, s, v, par, sd, strict))
    /\ UNCHANGED <<pc, kind, n, dt>>

\* load_state_dict -> Nodes._load_from_state_dict
Restore(sd, strict) ==
    /\ pc = "live"
    /\ IF MissingSpikes(sd)
       THEN \* the lookup raises before anything is written
            /\ last' = Call("restore", "KeyError", NoInt,
                            IF "s" \in sd.keys THEN sd.s.shape ELSE None, Fresh, {})
            /\ UNCHANGED <<shape, s, v, par, steps>>
       ELSE /\ shape' = RestoreShape(shape, sd)
            /\ s' = RestoreS(shape, s, sd)
            /\ v' = RestoreV(shape, s, v, par, sd)
            /\ par' = LoadParams(kind, par, sd)
            /\ steps' = 0
            /\ last' = Call("restore",
                            IF LoadErrors(kind, shape, s, v, par, sd, strict) = {}
                            THEN "ok" ELSE "RuntimeError",
                            NoInt, IF "s" \in sd.keys THEN sd.s.shape ELSE None, Fresh,
                            LoadErrors(kind, shape, s, v, par, sd, strict))
    /\ UNCHANGED <<pc, kind, n, dt>>

-----------------------------------------------------------------------------

Init ==
    /\ pc = "new"
    /\ kind = "IF"
    /\ n = NoInt
    /\ shape = None
    /\ dt = NoInt
    /\ s = EmptyTensor
    /\ v = EmptyTensor
    /\ par = IFParams(CHOOSE p \in ParamSets : p.thresh = 2)
    /\ last = Call("none", "ok", NoInt, None, FALSE, {})
    /\ steps = 0

Next ==
    \/ \E k \in Kinds, nArg \in {NoInt} \cup (1..MaxN), shapeArg \in {None} \cup Shapes,
          p \in ParamSets : Construct(k, nArg, shapeArg, p)
    \/ \E shapeArg \in {None} \cup Shapes : Reset(shapeArg)
    \/ \E x \in Inputs : ForwardStep(x)
    \/ \E sd \in Snapshots, strict \in StrictVals : Restore(sd, strict)

Spec == Init /\ [][Next]_vars

\* the same with the timestep setter, which writes dt alone; no other operation
\* reads or writes dt
NextDt ==
    \/ Next
    \/ \E d \in DtVals : SetDt(d)

SpecDt == Init /\ [][NextDt]_vars

-----------------------------------------------------------------------------
(* A population driven only by inputs of its stored shape *)

\* the inputs whose shape is the population's stored shape
ShapedInputs == IF shape = None THEN {} ELSE Drives(shape)

NextShaped ==
    \/ \E k \in Kinds, nArg \in {NoInt} \cup (1..MaxN), shapeArg \in {None} \cup Shapes,
          p \in ParamSets : Construct(k, nArg, shapeArg, p)
    \/ \E shapeArg \in {None} \cup Shapes : Reset(shapeArg)
    \/ \E x \in ShapedInputs : ForwardStep(x)
    \/ \E sd \in Snapshots, strict \in StrictVals : Restore(sd, strict)

SpecShaped == Init /\ [][NextShaped]_vars

-----------------------------------------------------------------------------
(* A population built, reset at most once, updated at most once, then restored *)

NextRestore ==
    \/ \E k \in Kinds, nArg \in {NoInt} \cup (1..MaxN), shapeArg \in {None} \cup Shapes,
          p \in ParamSets : Construct(k, nArg, shapeArg, p)
    \/ \E shapeArg \in {None} \cup Shapes : last.op = "construct" /\ Reset(shapeArg)
    \/ \E x \in Inputs : last.op \in {"construct", "reset"} /\ ForwardStep(x)
    \/ \E sd \in Snapshots, strict \in StrictVals :
          last.op # "restore" /\ Restore(sd, strict)

SpecRestore == Init /\ [][NextRestore]_vars

-----------------------------------------------------------------------------
(* A population built, reset and updated, never restored *)

NextUpdate ==
    \/ \E k \in Kinds, nArg \in {NoInt} \cup (1..MaxN), shapeArg \in {None} \cup Shapes,
          p \in ParamSets : Construct(k, nArg, shapeArg, p)
    \/ \E shapeArg \in {None} \cup Shapes : Reset(shapeArg)
    \/ \E x \in Inputs : ForwardStep(x)
    \/ \E d \in DtVals : SetDt(d)

SpecUpdate == Init /\ [][NextUpdate]_vars

-----------------------------------------------------------------------------
(* A population saved and restored into a fresh population of the same class *)

\* a snapshot holding the buffers alone
StateDictBuffersOnly(k, st, vt, p) ==
    [keys |-> {"s", "v"}, s |-> st, v |-> vt, p |-> [f \in DOMAIN p |-> NoInt]]

\* state_dict() of a population: its registered buffers s and v and its Parameter
\* attributes; scale is a plain attribute and is not saved
StateDict(k, st, vt, p) ==
    [keys |-> OwnKeys(k), s |-> st, v |-> vt,
     p |-> [f \in DOMAIN p |-> IF f \in OwnKeys(k) THEN p[f] ELSE NoInt]]

\* the keyword arguments of the fresh population's constructor: those of ParamSets
\* and one with another scale
FreshParamSets ==
    ParamSets
    \cup { [thresh |-> 2, reset |-> 0, lbound |-> -2, rest |-> -1, tc_decay |-> 2, scale |-> 2] }

\* the pair (self.s, self.v) forward leaves in a population of class k
ForwardOf(k, x, vt, p) == IF k = "IF" THEN IFForward(x, vt, p) ELSE LIFForward(x, vt, p)

\* q = Class(**p0); q.load_state_dict(population.state_dict()): from here on the
\* variables describe q
RoundTrip(p0) ==
    /\ pc = "live"
    /\ LET sd == StateDict(kind, s, v, par)
           p == CtorParams(kind, p0)
           errs == LoadErrors(kind, None, EmptyTensor, EmptyTensor, p, sd, TRUE)
       IN /\ shape' = RestoreShape(None, sd)
          /\ s' = RestoreS(None, EmptyTensor, sd)
          /\ v' = RestoreV(None, EmptyTensor, EmptyTensor, p, sd)
          /\ par' = LoadParams(kind, p, sd)
          /\ last' = Call("roundtrip", IF errs = {} THEN "ok" ELSE "RuntimeError",
                          NoInt, sd.s.shape, TRUE, errs)
    /\ n' = NoInt
    /\ dt' = NoInt
    /\ steps' = 0
    /\ UNCHANGED <<pc, kind>>

NextRoundTrip ==
    \/ \E k \in Kinds, nArg \in {NoInt} \cup (1..MaxN), shapeArg \in {None} \cup Shapes,
          p \in ParamSets : Construct(k, nArg, shapeArg, p)
    \/ \E shapeArg \in {None} \cup Shapes : Reset(shapeArg)
    \/ \E x \in Inputs : ForwardStep(x)
    \/ \E p0 \in FreshParamSets : RoundTrip(p0)

SpecRoundTrip == Init /\ [][NextRoundTrip]_vars

-----------------------------------------------------------------------------
(* An integrate-and-fire population reset and then driven at every step *)

\* the per-neuron values of a strictly positive drive, and the least of them
PosDriveVals == {1, 2}
MinDrive == 1

\* the strictly positive inputs shaped like the population
PosInputs == { [shape |-> s.shape, data |-> d] : d \in [1..Numel(s) -> PosDriveVals] }

\* the constructor's parameters here: those of ParamSets and one whose threshold
\* lies further above the reset voltage
DriveParamSets ==
    ParamSets
    \cup { [thresh |-> 4, reset |-> 0, lbound |-> -2, rest |-> -1, tc_decay |-> 2, scale |-> 1] }

\* IFNodes(shape=sh, ...) followed by reset_()
InitDrive ==
    /\ pc = "live"
    /\ kind = "IF"
    /\ shape \in Shapes
    /\ n = CtorN(NoInt, shape)
    /\ dt = NoInt
    /\ par \in { CtorParams("IF", p) : p \in DriveParamSets }
    /\ s = NodesResetS(shape, EmptyTensor)
    /\ v = ResetV(par, s)
    /\ last = Call("reset", "ok", NoInt, None, FALSE, {})
    /\ steps = 0

\* some neuron's spike is 1
Spiked == \E i \in 1..Numel(s) : s.data[i] = 1

\* one update under a strictly positive drive, as long as no neuron has spiked
DriveStep(x) ==
    /\ ~Spiked
    /\ Forward(x)
    /\ steps' = steps + 1

NextDrive == \E x \in PosInputs : DriveStep(x)

\* the caller applies the drive at every step
SpecDrive == InitDrive /\ [][NextDrive]_vars /\ WF_vars(NextDrive)

-----------------------------------------------------------------------------
(* A leaky population left without drive *)

\* the largest number of zero-drive updates followed
MaxDecaySteps == 3

\* the constructor's parameters here: the defaults' order (lbound below rest, reset
\* equal to rest), a reset voltage below the resting voltage, and a lower bound
\* above the resting voltage
DecayParamSets ==
    { [thresh |-> 5, reset |-> 0, lbound |-> -2, rest |-> 0, tc_decay |-> 2, scale |-> 1],
      [thresh |-> 5, reset |-> -1, lbound |-> -2, rest |-> 0, tc_decay |-> 1, scale |-> 1],
      [thresh |-> 5, reset |-> 0, lbound |-> 1, rest |-> -1, tc_decay |-> 1, scale |-> 1] }

\* the per-neuron initial voltages
DecayVolts == -1..5

\* LIFNodes(shape=sh, ...) whose buffers were restored from a snapshot with zero
\* spikes and arbitrary voltages
InitDecay ==
    /\ pc = "live"
    /\ kind = "LIF"
    /\ shape \in Shapes
    /\ n = CtorN(NoInt, shape)
    /\ dt = NoInt
    /\ par \in { CtorParams("LIF", p) : p \in DecayParamSets }
    /\ s = NodesResetS(shape, EmptyTensor)
    /\ v \in { [shape |-> shape, data |-> d] : d \in [1..Prod(shape) -> DecayVolts] }
    /\ last = Call("restore", "ok", NoInt, shape, FALSE, {})
    /\ steps = 0

\* one update under the zero drive
ZeroStep ==
    /\ steps < MaxDecaySteps
    /\ Forward(Zeros(v.shape))
    /\ steps' = steps + 1

NextDecay == ZeroStep

SpecDecay == InitDecay /\ [][NextDecay]_vars

-----------------------------------------------------------------------------
(* Properties *)

\* C1: after reset(shape), in either model, spikes is the all-zero tensor of shape
\* `shape` and every neuron's voltage is the reset voltage (not the resting voltage).
C1_ResetZeroesAndResetsVoltage ==
    (pc = "live" /\ last.op = "reset" /\ last.shapeArg # None) =>
        /\ s = Zeros(last.shapeArg)
        /\ v.shape = last.shapeArg
        /\ Numel(v) = Prod(last.shapeArg)
        /\ \A i \in 1..Numel(v) : v.data[i] = par.reset

\* a leaky population whose resting and reset voltages differ, reset to a shape of
\* another neuron count than the one it was built with
C1_Witness ==
    /\ pc = "live" /\ last.op = "reset" /\ last.shapeArg # None
    /\ kind = "LIF" /\ par.rest # par.reset
    /\ n # NoInt /\ n # Prod(shape)

\* C2: once built with a known shape, n is the product of the stored shape in every
\* reachable state.
C2_NIsProductOfShape ==
    (pc = "live" /\ n # NoInt) => n = Prod(shape)

\* C3: restoring a snapshot whose spikes entry has shape S into a fresh shape-deferred
\* population ends with no size mismatch, the stored shape and the spikes buffer's
\* shape being S.
C3_RestoreResyncsShape ==
    (pc = "live" /\ last.op = "restore" /\ last.fresh /\ last.shapeArg # None) =>
        /\ last.status # "KeyError"
        /\ shape = last.shapeArg
        /\ s.shape = last.shapeArg
        /\ v.shape = last.shapeArg
        /\ last.errs \cap {"size mismatch for s", "size mismatch for v"} = {}

\* a fresh shape-deferred leaky population restored without any report to a
\* two-dimensional shape
C3_Witness ==
    /\ pc = "live" /\ last.op = "restore" /\ last.fresh /\ last.status = "ok"
    /\ kind = "LIF" /\ n = NoInt /\ Len(shape) = 2 /\ Numel(s) = MaxN

\* C4: after an update, every neuron whose spike is 1 has the reset voltage, or the
\* lower bound when the reset voltage is below it.
C4_ResetOnSpike ==
    (pc = "live" /\ last.op = "forward") =>
        \A i \in 1..Numel(s) :
            s.data[i] = 1 => v.data[i] = Max(par.reset, par.lbound)

\* an update after which one neuron spiked and another did not, the reset voltage
\* lying below the lower bound
C4_Witness ==
    /\ pc = "live" /\ last.op = "forward"
    /\ par.reset < par.lbound
    /\ \E i, j \in 1..Numel(s) : s.data[i] = 1 /\ s.data[j] = 0

\* C5: the voltage buffer and the spikes buffer have the same shape in every
\* reachable state.
C5_VoltageShapedLikeSpikes ==
    pc = "live" => (v.shape = s.shape /\ Numel(v) = Numel(s))

\* a restoration from a snapshot without a voltage entry onto a population whose
\* buffers had another shape
C5_Witness ==
    /\ pc = "live" /\ last.op = "restore" /\ last.status = "RuntimeError"
    /\ "missing keys" \in last.errs
    /\ Numel(v) > 0 /\ \A i \in 1..Numel(v) : v.data[i] = par.reset
    /\ \E i \in 1..Numel(s) : s.data[i] = 1

\* C6: a constructor given both n and shape with n different from the product of
\* shape raises, and no population exists.
C6_MismatchRaises ==
    (last.op = "construct" /\ last.nArg # NoInt /\ last.shapeArg # None
        /\ last.nArg # Prod(last.shapeArg)) =>
        (pc = "failed" /\ last.status = "AssertionError")

\* the constructor called with n = 1 and shape (2,)
C6_Witness ==
    /\ last.op = "construct" /\ last.nArg = 1 /\ last.shapeArg = <<2>>
    /\ pc = "failed"

\* C7: a constructor whose n and shape agree succeeds with the given shape; given
\* shape alone n is its product, given n alone shape is [n], given neither both
\* are unset.
C7_ConstructionStoresShape ==
    (last.op = "construct"
        /\ (last.nArg = NoInt \/ last.shapeArg = None \/ last.nArg = Prod(last.shapeArg))) =>
        /\ pc = "live" /\ last.status = "ok"
        /\ last.shapeArg # None => shape = last.shapeArg
        /\ (last.shapeArg # None /\ last.nArg = NoInt) => n = Prod(last.shapeArg)
        /\ (last.shapeArg # None /\ last.nArg # NoInt) => n = last.nArg
        /\ (last.shapeArg = None /\ last.nArg # NoInt) => (shape = <<last.nArg>> /\ n = last.nArg)
        /\ (last.shapeArg = None /\ last.nArg = NoInt) => (shape = None /\ n = NoInt)

\* the constructor called with n = MaxN and the two-dimensional shape (MaxN, 1)
C7_Witness ==
    /\ last.op = "construct" /\ pc = "live"
    /\ last.nArg = MaxN /\ last.shapeArg = <<MaxN, 1>> /\ shape = <<MaxN, 1>>

\* C8: a reset with no shape argument on a population whose stored shape is unset
\* leaves shape, n, spikes and voltage as they were.
C8_DeferredResetIsNoop ==
    [][(pc = "live" /\ shape = None /\ last'.op = "reset" /\ last'.shapeArg = None)
         => UNCHANGED <<shape, n, s, v>>]_vars

\* C9: a restoration from a snapshot without a spikes entry raises the missing-entry
\* error, whatever the population's state and the snapshot's other entries.
C9_MissingSpikesRaises ==
    (last.op = "restore" /\ last.shapeArg = None) => last.status = "KeyError"

\* a population that has spiked, handed a snapshot without a spikes entry
C9_Witness ==
    /\ last.op = "restore" /\ last.shapeArg = None /\ last.status = "KeyError"
    /\ \E i \in 1..Numel(s) : s.data[i] = 1

\* the voltage of a neuron that does not spike in an update is not below its
\* voltage before the update
DriveMonotone ==
    \A i \in 1..Numel(s') : s'.data[i] = 0 => v'.data[i] >= v.data[i]

\* the updates applied before the last one added less than the gap between the
\* threshold and the initial (reset) voltage
StepBound == (steps - 1) * MinDrive < Max(1, par.thresh - par.reset)

\* C10 (as amended): an integrate-and-fire population reset and driven by a strictly
\* positive input at every step: a neuron's voltage does not decrease in an update
\* in which it does not spike, the number of updates up to the first spike is
\* bounded by the threshold, the initial voltage and the least drive, a spike
\* eventually occurs, and a spiking neuron's voltage is the reset voltage, or the
\* lower bound when the reset voltage is below it.
C10_DriveSpikesWithinBound ==
    /\ [][DriveMonotone]_vars
    /\ [](StepBound)
    /\ <>Spiked
    /\ [](\A i \in 1..Numel(s) : s.data[i] = 1 => v.data[i] = Max(par.reset, par.lbound))

\* C10 as stated: the same, the spiking neuron's voltage being the reset voltage.
C10_DriveSpikesAtReset ==
    /\ [][DriveMonotone]_vars
    /\ [](StepBound)
    /\ <>Spiked
    /\ [](\A i \in 1..Numel(s) : s.data[i] = 1 => v.data[i] = par.reset)

\* the third update makes one neuron spike while another, whose voltage has risen,
\* does not
C10_Witness ==
    /\ steps = 3 /\ last.op = "forward"
    /\ \E i, j \in 1..Numel(s) :
          /\ s.data[i] = 1 /\ v.data[i] = par.reset
          /\ s.data[j] = 0 /\ v.data[j] > par.reset

\* C11 (as amended): in a leaky population under zero drive, a neuron whose voltage
\* is above the resting voltage and not below the lower bound, and which does not
\* spike in the update, ends the update with a voltage between the resting voltage
\* and its previous voltage.
C11_DecayTowardRest ==
    [][\A i \in 1..Numel(v) :
          (v.data[i] > par.rest /\ v.data[i] >= par.lbound /\ s'.data[i] = 0)
              => (par.rest <= v'.data[i] /\ v'.data[i] <= v.data[i])]_vars

\* C11 as stated: every neuron whose voltage is above the resting voltage ends the
\* update with a voltage between the resting voltage and its previous voltage.
C11_DecayTowardRestAlways ==
    [][\A i \in 1..Numel(v) :
          v.data[i] > par.rest
              => (par.rest <= v'.data[i] /\ v'.data[i] <= v.data[i])]_vars

\* after two zero-drive updates a neuron that never spiked is still above the resting
\* voltage, and another has reached it
C11_Witness ==
    /\ steps = 2 /\ last.op = "forward" /\ par.tc_decay = 2
    /\ \E i, j \in 1..Numel(v) :
          /\ s.data[i] = 0 /\ v.data[i] > par.rest
          /\ s.data[j] = 0 /\ v.data[j] = par.rest

\* C12: a reset(shape) that follows a reset(shape) with the same shape leaves the
\* population (shape, n, spikes, voltage, parameters) as the first left it.
C12_ResetIdempotent ==
    [][(pc = "live" /\ last.op = "reset" /\ last.shapeArg # None
          /\ last'.op = "reset" /\ last'.shapeArg = last.shapeArg)
         => UNCHANGED <<shape, n, s, v, par, kind, dt>>]_vars

\* a second reset to the same shape, of a leaky population built with another
\* neuron count
C12_Witness ==
    /\ pc = "live" /\ last.op = "reset" /\ last.repeat /\ last.shapeArg # None
    /\ kind = "LIF" /\ n # NoInt /\ n # Prod(shape)
    /\ s = Zeros(last.shapeArg)

\* non-empty buffers have the stored shape
BuffersHaveStoredShape ==
    (pc = "live" /\ Numel(s) > 0) => (s.shape = shape /\ v.shape = shape)

\* a reset that resolved a shape leaves a non-empty spikes buffer
ResetAllocates ==
    (pc = "live" /\ last.op = "reset" /\ shape # None) => Numel(s) > 0

\* a reset that resolved a shape other than the empty tensor's leaves a non-empty
\* spikes buffer
ResetAllocatesNonEmptyShape ==
    (pc = "live" /\ last.op = "reset" /\ shape # None /\ shape # EmptyShape)
        => Numel(s) > 0

\* C13 (as amended): under resets, restorations and updates whose drive has the
\* stored shape, non-empty spikes and voltage buffers have the stored shape; a reset
\* that resolves a shape leaves spikes non-empty, and spikes, once non-empty, becomes
\* empty again only by a restoration from a snapshot whose spikes entry is empty
\* (which stores the empty tensor's shape, so that resets without a shape argument
\* keep spikes empty).
C13_BuffersFollowShape ==
    /\ []BuffersHaveStoredShape
    /\ []ResetAllocatesNonEmptyShape
    /\ [][(Numel(s) > 0 /\ ~(last'.op = "restore" /\ last'.shapeArg = EmptyShape))
            => Numel(s') > 0]_vars

\* C13 as stated: the same, spikes never becoming empty again once it is non-empty.
C13_SpikesEmptyOnlyBeforeReset ==
    /\ []BuffersHaveStoredShape
    /\ []ResetAllocates
    /\ [][Numel(s) > 0 => Numel(s') > 0]_vars

\* a population built with one shape, restored to a two-dimensional shape and then
\* updated: its buffers have the restored shape
C13_Witness ==
    /\ pc = "live" /\ last.op = "forward"
    /\ n # NoInt /\ n # Prod(shape) /\ Len(shape) = 2
    /\ s.shape = shape /\ v.shape = shape
    /\ \E i \in 1..Numel(s) : s.data[i] = 1

\* the parameters a snapshot carries for a population of kind k
LoadedKeys(k, sd) == (OwnKeys(k) \cap sd.keys) \ {"s", "v"}

\* C14: a restoration from a snapshot sd with a spikes entry leaves the stored shape
\* equal to the entry's shape, spikes equal to the entry, voltage equal to the
\* snapshot's voltage (when it has none: the reset voltage held before the
\* restoration, over the entry's shape, which is what a reset completed before the
\* load leaves), and every parameter the snapshot carries equal to the snapshot's.
C14_ResetBeforeLoad ==
    [][last'.op = "restore" =>
         \A sd \in Snapshots :
            ("s" \in sd.keys /\ Restore(sd, TRUE)) =>
                /\ shape' = sd.s.shape
                /\ s' = sd.s
                /\ "v" \in sd.keys => v' = sd.v
                /\ "v" \notin sd.keys => v' = Scale(par.reset, OnesLike(sd.s))
                /\ \A f \in LoadedKeys(kind, sd) : par'[f] = sd.p[f]]_vars

\* a population restored without error from a snapshot whose spikes entry has
\* another number of neurons than n, all spiking, with a voltage entry that
\* differs from the reset voltage
C14_Witness ==
    /\ pc = "live" /\ last.op = "restore" /\ last.status = "ok"
    /\ n # NoInt /\ n # Prod(shape)
    /\ \A i \in 1..Numel(s) : s.data[i] = 1 /\ v.data[i] \in SnapVolts
    /\ Numel(s) = MaxN
    /\ par.reset # 0

\* the voltage after the integration step of an update under the drive x, before
\* the threshold comparison, the reset and the clamp
Integrated(x) ==
    IF kind = "IF" THEN IfUpdate(x, v) ELSE LifUpdate(x, v, par.tc_decay, par.rest)

\* every spikes value is 0 or 1
SpikesBinary == pc = "live" => \A i \in 1..Numel(s) : s.data[i] \in {0, 1}

\* C15: in an update of either model under a drive x, the stored spike of a neuron is
\* 1 exactly when its voltage after the integration step (before reset and clamp) is
\* at least the threshold and 0 otherwise; every spikes value in every reachable
\* state is 0 or 1.
C15_SpikeIffIntegratedAtThreshold ==
    /\ []SpikesBinary
    /\ [][last'.op = "forward" =>
            \A x \in Drives(s'.shape) :
               ForwardStep(x) =>
                  \A i \in 1..Numel(s') :
                     s'.data[i] = (IF Integrated(x).data[i] >= par.thresh THEN 1 ELSE 0)]_vars

\* an update of a leaky population in which one neuron crossed the threshold and was
\* reset below it while another stayed below the threshold
C15_Witness ==
    /\ pc = "live" /\ last.op = "forward" /\ kind = "LIF"
    /\ par.reset >= par.lbound
    /\ \E i, j \in 1..Numel(s) :
          /\ s.data[i] = 1 /\ v.data[i] = par.reset /\ v.data[i] < par.thresh
          /\ s.data[j] = 0 /\ v.data[j] < par.thresh

\* C16: after every update of either model, every neuron's voltage is at least the
\* lower bound (the clamp acts on the voltage left by the reset-on-spike).
C16_VoltageAtLeastLowerBound ==
    (pc = "live" /\ last.op = "forward") =>
        \A i \in 1..Numel(v) : v.data[i] >= par.lbound

\* an update, the reset voltage lying below the lower bound, after which a spiking
\* neuron and a neuron driven below the lower bound both sit at the lower bound
C16_Witness ==
    /\ pc = "live" /\ last.op = "forward"
    /\ par.reset < par.lbound
    /\ \E i, j \in 1..Numel(s) :
          /\ s.data[i] = 1 /\ v.data[i] = par.lbound
          /\ s.data[j] = 0 /\ v.data[j] = par.lbound

\* C17: an update of either model leaves the stored shape, n, the timestep and
\* every parameter (thresh, reset, lbound, scale, rest, tc_decay) unchanged; it
\* writes spikes and voltage only.
C17_ForwardFrame ==
    [][last'.op = "forward" => UNCHANGED <<pc, kind, shape, n, dt, par>>]_vars

\* an update of a leaky population whose timestep was set, whose drive has another
\* neuron count than n, and which made a neuron spike
C17_Witness ==
    /\ pc = "live" /\ last.op = "forward" /\ kind = "LIF"
    /\ dt # NoInt /\ n # NoInt /\ Numel(s) # n
    /\ \E i \in 1..Numel(s) : s.data[i] = 1

\* C18: a population reached by resets and updates, saved and restored into a fresh
\* shape-deferred population of the same class: the load reports nothing, the copy's
\* spikes, voltage and saved parameters are the original's, and an update of the
\* copy under any drive leaves the spikes and the voltage the same update leaves in
\* the original (so all later updates agree as well).
C18_RoundTrip ==
    [][last'.op = "roundtrip" =>
         /\ last'.status = "ok"
         /\ s' = s
         /\ v' = v
         /\ \A f \in OwnKeys(kind) \ {"s", "v"} : par'[f] = par[f]
         /\ \A x \in Inputs :
               ForwardOf(kind, x, v', par') = ForwardOf(kind, x, v, par)]_vars

\* the copy of a leaky population with a two-dimensional shape, one neuron having
\* spiked and another holding a voltage other than the reset voltage, built with
\* another scale and with other parameters than it now holds
C18_Witness ==
    /\ pc = "live" /\ last.op = "roundtrip" /\ last.status = "ok"
    /\ kind = "LIF" /\ Len(shape) = 2 /\ n = NoInt
    /\ par.scale = 2 /\ par.thresh = 1
    /\ \E i, j \in 1..Numel(s) : s.data[i] = 1 /\ s.data[j] = 0 /\ v.data[j] # par.reset

\* C19: a restoration that fails for want of a spikes entry leaves the shape, n,
\* spikes, voltage and parameters as they were before the attempt.
C19_FailedRestoreChangesNothing ==
    [][(last'.op = "restore" /\ last'.status = "KeyError")
         => UNCHANGED <<pc, kind, shape, n, dt, s, v, par>>]_vars

\* a failed restoration into a population with a spike, a voltage other than the
\* reset voltage, and buffers of another neuron count than n
C19_Witness ==
    /\ pc = "live" /\ last.op = "restore" /\ last.status = "KeyError"
    /\ n # NoInt /\ n # Numel(s)
    /\ \E i, j \in 1..Numel(s) : s.data[i] = 1 /\ v.data[j] # par.reset

====
